---- MODULE Spec2Model ----
(***************************************************************************)
(* Wesolowski VDF over an RSW time-lock puzzle (rustaxa): RswPuzzle,       *)
(* HashToPrime with its process-wide precision-bound cache,                *)
(* WesolowskiProver with cooperative cancellation, WesolowskiVerifier,     *)
(* and the level queries of the storage crate's DagRepository.             *)
(*                                                                         *)
(* Arbitrary-precision values are TLC integers.  Widths and search sizes   *)
(* that TLC cannot enumerate are scaled down and named as bounds:          *)
(* U64_BITS (64), PRACTICAL_BITS_CAP (32), MAX_ITER (10000),               *)
(* HASH_MODULUS (2^64 - 59), CHECK_DIVISOR (100), MAX_CHECK_INTERVAL       *)
(* (10000), LARGE_CHECK_INTERVAL (100000).  A precision bound 2^k is       *)
(* represented by its exponent k.                                          *)
(***************************************************************************)
EXTENDS Integers, Naturals, Sequences, FiniteSets, TLC

\* ------------------------------------------------------------------ bounds
MaxModulusByte == 3         \* one-byte moduli 0 .. MaxModulusByte
MaxInputByte == 3           \* one-byte inputs 0 .. MaxInputByte
MaxTimeBits == 4            \* time_bits 0 .. MaxTimeBits
MaxSolByte == 3             \* bytes of the arbitrary solutions handed to verify
U64_BITS == 4               \* width of the native loop counter (u64: 64)
PRACTICAL_BITS_CAP == 5     \* cap on practical_bits (source: 32)
MAX_ITER == 3               \* prime search cap (source: 10000)
HASH_MODULUS == 13          \* seed modulus (source: 2^64 - 59)
CHECK_DIVISOR == 2          \* check_interval = T / CHECK_DIVISOR (source: 100)
MAX_CHECK_INTERVAL == 3     \* upper clamp of check_interval (source: 10000)
LARGE_CHECK_INTERVAL == 3   \* poll interval of the big-integer loop (source: 100000)
GEN_MOD == 31               \* state space of the modelled generator
ConcMaxTimeBits == 3        \* time_bits 0 .. ConcMaxTimeBits when two threads run
ExtTimeBits == 2            \* time_bits when tokens are bound to the external flag
RefineMaxTimeBits == 3      \* time_bits 0 .. RefineMaxTimeBits when both loops run
MaxPad == 2                 \* zero bytes prepended to a field of a Solution
DagMaxLevel == 1            \* DAG levels 0 .. DagMaxLevel have an index entry or none
DagMaxHash == 2             \* DAG block hashes 1 .. DagMaxHash
DagMaxDepth == 2            \* number_of_levels 0 .. DagMaxDepth

\* ------------------------------------------------------- program constants
BYTE_BASE == 256
MAX_MILLER_RABIN == 30
MIN_PRECISION_BITS == 64
MAX_PRECISION_BITS == 8192

Threads == {1, 2}
NoThread == 0
None == -1

Min(a, b) == IF a < b THEN a ELSE b
Max(a, b) == IF a > b THEN a ELSE b
Clamp(v, lo, hi) == IF v < lo THEN lo ELSE IF v > hi THEN hi ELSE v

RECURSIVE Pow2(_)
Pow2(n) == IF n = 0 THEN 1 ELSE 2 * Pow2(n - 1)

\* rug::Integer::significant_bits
RECURSIVE SignificantBits(_)
SignificantBits(n) == IF n = 0 THEN 0 ELSE 1 + SignificantBits(n \div 2)

\* a decoder that takes the first byte as the least significant one
RECURSIVE FromDigitsLsf(_)
FromDigitsLsf(bytes) ==
    IF bytes = << >> THEN 0
    ELSE Head(bytes) + BYTE_BASE * FromDigitsLsf(Tail(bytes))

\* rug::Integer::from_digits(bytes, Order::MsfBe): leading zero bytes allowed
RECURSIVE FromDigits(_)
FromDigits(bytes) ==
    IF bytes = << >> THEN 0
    ELSE FromDigits(SubSeq(bytes, 1, Len(bytes) - 1)) * BYTE_BASE + bytes[Len(bytes)]

\* rug::Integer::to_digits::<u8>(Order::MsfBe): minimal length, 0 is the empty string
RECURSIVE ToDigits(_)
ToDigits(n) ==
    IF n = 0 THEN << >>
    ELSE Append(ToDigits(n \div BYTE_BASE), n % BYTE_BASE)

\* rug::Integer::to_u64: None when the value does not fit the native width
ToU64(n) == IF n < Pow2(U64_BITS) THEN n ELSE None

\* ------------------------------------------------------------- input sets
ModulusStrings ==
    {<< >>} \cup {<<b>> : b \in 0..MaxModulusByte} \cup {<<7>>, <<11>>, <<1, 1>>}
InputStrings ==
    {<< >>} \cup {<<b>> : b \in 1..MaxInputByte} \cup {<<0, 2>>, <<1, 1>>}
Lambdas == {0, 128}
\* every lambda a HashToPrime is built with, the keys of the cache
AllLambdas == Lambdas \cup {50, 1500, 11000}
GenParams == {<<3, 1>>, <<5, 3>>, <<7, 2>>}

VARIABLES
    lambda,                             \* per thread: the lambda it constructs with
    time_bits, input, modulus,          \* the other constructor arguments
    genA, genC,                         \* the generator algorithm behind RandState
    cache, lock, poisoned,              \* PRECISION_CACHE, its mutex, the mutex's poison flag
    pc, computed, vdf,                  \* per thread: position, local bound, the WesolowskiVdf
    flag, tok,                          \* per thread: the token's own flag, and its binding
    ext,                                \* the externally owned flag tokens may be bound to
    cancelled,                          \* per thread: cancel() has been called on its token
    pre,                                \* per thread: is_cancelled() when prove() started
    loc,                                \* per thread: locals of prove()
    sol,                                \* per thread: Solution returned by prove()
    call,                               \* per thread: last verify() / hash_to_prime() call made
    DagBlocksLevel,                     \* Column::DagBlocksLevel: level -> list of block hashes
    DagBlocks,                          \* per block hash: the column that holds its bytes
    query                               \* the last call of each level query of DagRepository

store == <<DagBlocksLevel, DagBlocks, query>>
params == <<lambda, time_bits, input, modulus, genA, genC>>
mutex == <<lock, poisoned>>
token == <<flag, tok, ext, cancelled>>
vars == <<lambda, time_bits, input, modulus, genA, genC, cache, lock, poisoned,
          pc, computed, vdf, flag, tok, ext, cancelled, pre, loc, sol, call,
          DagBlocksLevel, DagBlocks, query>>

\* ------------------------------------------------------------- RswPuzzle
\* a constructor that stores the decoded input without reducing it
RswPuzzleNewNoReduce(tb, inp, modl) ==
    LET base0 == FromDigits(inp)
        m == FromDigits(modl)
    IN IF m = 0 THEN [panic |-> TRUE]
       ELSE [panic |-> FALSE, time_bits |-> tb, base |-> base0,
             modulus |-> m, iterations |-> Pow2(tb)]

\* RswPuzzle::new; `base % &modulus` panics on a zero modulus
RswPuzzleNew(tb, inp, modl) ==
    LET base0 == FromDigits(inp)
        m == FromDigits(modl)
        iterations == Pow2(tb)
    IN IF m = 0 THEN [panic |-> TRUE]
       ELSE [panic |-> FALSE, time_bits |-> tb, base |-> base0 % m,
             modulus |-> m, iterations |-> iterations]

\* ----------------------------------------------------------- HashToPrime
\* The float pipeline of compute_precision_bound: the kind of w left by the
\* Lambert-W iteration and |w| in tenths.  lambda = 0 makes l1 = ln(1) = 0 and
\* w = -inf - (-inf) = NaN; otherwise w = W_{-1}(-2^-lambda):
\* -38.3 (lambda 50), -93.3 (lambda 128), -1046.7 (lambda 1500) and -7633.6
\* (lambda 11000).  For the last two the loop leaves through the
\* `|w| > 1000` guard after its first update (diverged); the guard is a
\* `break`, and the w it leaves is finite.
LambertW(lam) ==
    IF lam = 0
    THEN [finite |-> FALSE, zero |-> FALSE, diverged |-> FALSE, tenths |-> 0]
    ELSE IF lam = 50
    THEN [finite |-> TRUE, zero |-> FALSE, diverged |-> FALSE, tenths |-> 383]
    ELSE IF lam = 128
    THEN [finite |-> TRUE, zero |-> FALSE, diverged |-> FALSE, tenths |-> 933]
    ELSE IF lam = 1500
    THEN [finite |-> TRUE, zero |-> FALSE, diverged |-> TRUE, tenths |-> 10467]
    ELSE [finite |-> TRUE, zero |-> FALSE, diverged |-> TRUE, tenths |-> 76336]

\* compute_precision_bound, returning the exponent k of the bound 2^k
ComputePrecisionBound(lam) ==
    LET w == LambertW(lam)
        \* (precision_bits_f64 * 1.1).ceil()
        scaled_bits == (w.tenths * 11 + 99) \div 100
        \* w_magnitude.to_integer(): rounds to the nearest integer
        bits_u32 == (w.tenths + 5) \div 10
    IN IF w.finite /\ ~w.zero
       THEN IF w.tenths > 0 /\ scaled_bits >= MIN_PRECISION_BITS
                            /\ scaled_bits <= MAX_PRECISION_BITS
            THEN scaled_bits
            ELSE Clamp(bits_u32, MIN_PRECISION_BITS, MAX_PRECISION_BITS)
       ELSE MIN_PRECISION_BITS

\* significant_bits of max_int = 2^k / 6
MaxIntBits(k) == IF k >= 3 THEN k - 2 ELSE 0

\* a generator whose state carries over from the hash_to_prime calls made before
RandSeedCarry(seed) ==
    (seed + Cardinality({t \in DOMAIN call : call[t].op = "hash"})) % GEN_MOD

\* RandState::new + seed, and one step of the generator
RandSeed(seed) == seed % GEN_MOD
RandNext(s) == (genA * s + genC) % GEN_MOD
\* Integer::random_below(bound) on the advanced state
RandomBelow(bound, s) == s % bound

\* Integer::is_probably_prime(reps) on a candidate below the native width:
\* GMP answers Yes for a prime and No for a composite
RECURSIVE HasDivisor(_, _)
HasDivisor(n, d) ==
    IF d * d > n THEN FALSE
    ELSE IF n % d = 0 THEN TRUE ELSE HasDivisor(n, d + 1)
IsProbablyPrime(n, reps) ==
    IF n >= 2 /\ ~HasDivisor(n, 2) THEN "Yes" ELSE "No"

\* a width that grows with the bound below the cap
PracticalBitsByBound(k) == Min(MaxIntBits(k) \div 16, PRACTICAL_BITS_CAP)

\* min(self.max_int.significant_bits(), 32)
PracticalBits(k) == Min(MaxIntBits(k), PRACTICAL_BITS_CAP)
PracticalMax(k) ==
    IF PracticalBits(k) <= 64
    THEN Pow2(Min(PracticalBits(k), 63)) \div 6
    ELSE Pow2(PracticalBits(k)) \div 6

\* a seed that also draws on how many calls have finished (a clock)
HashSeedClock(inp) ==
    (IF inp = 0 THEN 1 ELSE inp % HASH_MODULUS)
        + Cardinality({t \in DOMAIN pc : pc[t] \in {"done", "verified", "called"}})

\* a seed that is the input itself
HashSeedRaw(inp) == inp

\* the seed of hash_to_prime
HashSeed(inp) == IF inp = 0 THEN 1 ELSE inp % HASH_MODULUS

\* the search loop of hash_to_prime; trace records every iteration executed:
\* the bound handed to random_below, the value drawn, the transformed
\* candidate, whether it reached the primality test and the test's answer
RECURSIVE HashLoop(_, _, _, _, _, _)
HashLoop(pmax, s, count, is_prime, candidate, trace) ==
    IF ~(is_prime /= "Yes" /\ count < MAX_ITER)
    THEN [count |-> count, is_prime |-> is_prime, candidate |-> candidate,
          trace |-> trace]
    ELSE LET s1 == RandNext(s)
             c0 == RandomBelow(pmax, s1)
             s2 == RandNext(s1)
             sign_bit == RandomBelow(2, s2)
             sign == 2 * sign_bit - 1
             cand == 6 * c0 + sign
         IN IF cand < 2
            THEN HashLoop(pmax, s2, count + 1, is_prime, cand,
                          Append(trace, [below |-> pmax, pre |-> c0, candidate |-> cand,
                                         tested |-> FALSE, answer |-> "No"]))
            ELSE LET ans == IsProbablyPrime(cand, MAX_MILLER_RABIN)
                 IN HashLoop(pmax, s2, count + 1, ans, cand,
                             Append(trace, [below |-> pmax, pre |-> c0, candidate |-> cand,
                                            tested |-> TRUE, answer |-> ans]))

\* hash_to_prime without the test of the iteration cap
HashToPrimeNoCapTest(k, inp) ==
    LET end == HashLoop(PracticalMax(k), RandSeed(HashSeed(inp)), 0, "No", 0, << >>)
    IN [ok |-> TRUE, prime |-> end.candidate, count |-> end.count, trace |-> end.trace]

\* HashToPrime::hash_to_prime on an instance whose bound is 2^k
HashToPrime(k, inp) ==
    LET end == HashLoop(PracticalMax(k), RandSeed(HashSeed(inp)), 0, "No", 0, << >>)
    IN IF end.count = MAX_ITER
       THEN [ok |-> FALSE, prime |-> 0, count |-> end.count, trace |-> end.trace]
       ELSE [ok |-> TRUE, prime |-> end.candidate, count |-> end.count,
             trace |-> end.trace]

\* ------------------------------------------------------- WesolowskiVerifier
\* a pow_mod that drops the multiplication of odd exponent bits
RECURSIVE PowModNoOddStep(_, _, _)
PowModNoOddStep(b, e, m) ==
    IF e = 0 THEN 1 % m
    ELSE IF e = 1 THEN b % m
    ELSE LET h == PowModNoOddStep(b, e \div 2, m) IN (h * h) % m

\* rug::Integer::pow_mod with a non-negative exponent (square and multiply)
RECURSIVE PowMod(_, _, _)
PowMod(b, e, m) ==
    IF e = 0 THEN 1 % m
    ELSE LET h == PowMod(b, e \div 2, m)
             sq == (h * h) % m
         IN IF e % 2 = 1 THEN (sq * (b % m)) % m ELSE sq

\* xy = x * 2^(modulus_bits) + y
Concat(base, y, m) == base * Pow2(SignificantBits(m)) + y

\* the range check without its zero tests
OutOfRangeNoZero(pi, sigma, m) == sigma >= m \/ pi >= m

\* the range check at the head of verify
OutOfRange(pi, sigma, m) == sigma = 0 \/ pi = 0 \/ sigma >= m \/ pi >= m

\* a comparison that ignores the proof term
AcceptsIgnoringProof(x_r, pi_p, sigma, m) == sigma = x_r % m

\* the closing comparison of verify: h = (x^r * pi^p) mod N against sigma
Accepts(x_r, pi_p, sigma, m) == sigma = (x_r * pi_p) % m

\* WesolowskiVerifier::verify
WVerify(v, s) ==
    LET pi == FromDigits(s.first)
        sigma == FromDigits(s.second)
    IN IF OutOfRange(pi, sigma, v.modulus) THEN FALSE
       ELSE LET h == HashToPrime(v.max_int, Concat(v.base, sigma, v.modulus))
            IN IF ~h.ok THEN FALSE
               ELSE LET p == h.prime
                        r == PowMod(2, v.iterations, p)
                        x_r == PowMod(v.base, r, v.modulus)
                        pi_p == PowMod(pi, p, v.modulus)
                    IN Accepts(x_r, pi_p, sigma, v.modulus)

\* --------------------------------------------------------- WesolowskiProver
EmptySolution == [first |-> << >>, second |-> << >>]

\* Self::square_mod
SquareMod(value, m) == (value * value) % m

\* check_interval with the upper clamp applied as a lower one
CheckIntervalMax(T) == Max(Max(T \div CHECK_DIVISOR, 1), MAX_CHECK_INTERVAL)

\* check_interval = (iterations_u64 / 100).clamp(1, 10000)
CheckInterval(T) == Clamp(T \div CHECK_DIVISOR, 1, MAX_CHECK_INTERVAL)

\* the locals of prove() before the first loop
InitLocals ==
    [path |-> "none", i |-> 0, y |-> 0, r |-> 0, pi |-> 0, p |-> 0,
     check_interval |-> 0, check_counter |-> 0,
     nsq |-> 0, nit2 |-> 0, hashed |-> FALSE, abort |-> "none",
     since_poll |-> 0, nhash |-> 0]

\* the squaring steps executed since the last poll of the token (since the
\* entry of prove() before the first poll), after one more step of l
SincePoll(l, polled) == IF polled THEN 1 ELSE l.since_poll + 1

\* whether iteration i polls the token, and the counter it leaves
\* (native loop: i % check_interval == 0; big-integer loop: check_counter)
PollDue(l) ==
    IF l.path = "native" THEN l.i % l.check_interval = 0
    ELSE l.check_counter + 1 >= LARGE_CHECK_INTERVAL
NextCounter(l) ==
    IF l.path = "native" THEN l.check_counter
    ELSE IF l.check_counter + 1 >= LARGE_CHECK_INTERVAL THEN 0
         ELSE l.check_counter + 1

\* a poll that reads the flag inverted
IsCancelledInverted(t) == ~flag[t]

\* a load that never sees the external location change
ExternalLoadStale == FALSE

\* (*(ptr as *const AtomicBool)).load(Ordering::Acquire)
ExternalLoad == ext

\* a poll that sees the flag of every token in the process
IsCancelledShared(t) == \E u \in Threads : flag[u]

\* CancellationToken::is_cancelled: the external location when the token is
\* bound to one, the token's own flag otherwise
IsCancelled(t) == IF tok[t] = "ext" THEN ExternalLoad ELSE flag[t]

\* ------------------------------------------------------------ tampering
\* byte with bit k flipped
FlipByte(b, k) == IF (b \div Pow2(k)) % 2 = 1 THEN b - Pow2(k) ELSE b + Pow2(k)
\* every byte string that differs from bytes in exactly one bit
BitFlips(bytes) ==
    {[bytes EXCEPT ![j] = FlipByte(bytes[j], k)] : j \in 1..Len(bytes), k \in 0..7}
ProofFlips(s) == {[first |-> f, second |-> s.second] : f \in BitFlips(s.first)}
OutputFlips(s) == {[first |-> s.first, second |-> f] : f \in BitFlips(s.second)}

\* the Solutions a caller hands to verify(): the prover's, and arbitrary short ones
SolStrings == {<< >>} \cup {<<b>> : b \in 0..MaxSolByte} \cup {<<0, 1>>}
ArbitrarySolutions == {[first |-> a, second |-> b] : a \in SolStrings, b \in SolStrings}
HashInputs == 0..(HASH_MODULUS + 1)

NoCall == [op |-> "none"]

\* --------------------------------------------------------- DagRepository
Levels == 0..DagMaxLevel
Hashes == 1..DagMaxHash
\* the values of an index entry: lists of distinct hashes
HashLists ==
    {l \in UNION {[1..k -> Hashes] : k \in 0..DagMaxHash} :
        \A i, j \in DOMAIN l : i /= j => l[i] /= l[j]}
\* the bytes stored for the block with hash h
BlockRlp(h) == <<192 + h, h>>
\* db.get(Column::DagBlocksLevel, key): None, or Some(value)
NoEntry == [some |-> FALSE]
Entry(l) == [some |-> TRUE, value |-> l]
NoQuery == [made |-> FALSE]
DagQueries == {"dag_blocks_at_level", "dag_blocks_at_level_rlp"}

\* a database without DAG blocks, on which no query is made
DagEmpty ==
    /\ DagBlocksLevel = [l \in Levels |-> NoEntry]
    /\ DagBlocks = [h \in Hashes |-> "none"]
    /\ query = [q \in DagQueries |-> NoQuery]

\* blocks_by_level: the hashes of the entry, none when the level has no entry
blocks_by_level(level) ==
    IF level \in Levels /\ DagBlocksLevel[level].some
    THEN DagBlocksLevel[level].value
    ELSE << >>

\* dag_block_rlp: the bytes from Column::DagBlocks, else from the period data
\* the block was finalized into, else Err
dag_block_rlp(block) ==
    IF DagBlocks[block] = "DagBlocks" THEN [ok |-> TRUE, rlp |-> BlockRlp(block)]
    ELSE IF DagBlocks[block] = "PeriodData" THEN [ok |-> TRUE, rlp |-> BlockRlp(block)]
    ELSE [ok |-> FALSE]

\* dag_blocks_at_level: levels level + depth for depth in 0..n, filtered by
\* lvl > 0, each extended with blocks_by_level(lvl)
RECURSIVE HashesFrom(_, _, _)
HashesFrom(level, depth, n) ==
    IF depth >= n THEN << >>
    ELSE (IF level + depth > 0 THEN blocks_by_level(level + depth) ELSE << >>)
             \o HashesFrom(level, depth + 1, n)
dag_blocks_at_level(level, number_of_levels) == HashesFrom(level, 0, number_of_levels)

\* dag_blocks_at_level_rlp: for i in 0..n, every hash of blocks_by_level(level + i)
\* whose dag_block_rlp is Ok pushes its bytes
RECURSIVE RlpsOf(_)
RlpsOf(blocks) ==
    IF blocks = << >> THEN << >>
    ELSE (IF dag_block_rlp(Head(blocks)).ok
          THEN <<dag_block_rlp(Head(blocks)).rlp>> ELSE << >>)
             \o RlpsOf(Tail(blocks))
RECURSIVE RlpsFrom(_, _, _)
RlpsFrom(level, i, n) ==
    IF i >= n THEN << >>
    ELSE RlpsOf(blocks_by_level(level + i)) \o RlpsFrom(level, i + 1, n)
dag_blocks_at_level_rlp(level, number_of_levels) == RlpsFrom(level, 0, number_of_levels)

\* ------------------------------------------------------------------ Init
InitFor(L) ==
    /\ lambda \in [Threads -> L]
    /\ time_bits \in 0..MaxTimeBits
    /\ input \in InputStrings
    /\ modulus \in ModulusStrings
    /\ \E g \in GenParams : genA = g[1] /\ genC = g[2]
    /\ cache = [l \in AllLambdas |-> None]
    /\ lock = NoThread
    /\ poisoned = FALSE
    /\ pc = [t \in Threads |-> "new"]
    /\ computed = [t \in Threads |-> None]
    /\ vdf = [t \in Threads |-> [panic |-> TRUE]]
    /\ flag = [t \in Threads |-> FALSE]
    /\ tok = [t \in Threads |-> "own"]
    /\ ext = FALSE
    /\ cancelled = [t \in Threads |-> FALSE]
    /\ pre = [t \in Threads |-> FALSE]
    /\ loc = [t \in Threads |-> InitLocals]
    /\ sol = [t \in Threads |-> EmptySolution]
    /\ call = [t \in Threads |-> NoCall]

\* every caller constructs with the same lambda
Init == InitFor(Lambdas) /\ DagEmpty /\ \A t \in Threads : lambda[t] = lambda[1]

\* --------------------------------------------------- WesolowskiVdf::new
\* RswPuzzle::new, the first statement of WesolowskiVdf::new
VdfNew(t) ==
    /\ pc[t] = "new"
    /\ LET pz == RswPuzzleNew(time_bits, input, modulus)
       IN IF pz.panic
          THEN /\ pc' = [pc EXCEPT ![t] = "panicked"]
               /\ UNCHANGED vdf
          ELSE /\ pc' = [pc EXCEPT ![t] = "h_lock"]
               /\ vdf' = [vdf EXCEPT ![t] = pz]
    /\ UNCHANGED <<store, params, cache, mutex, computed, token, pre, loc, sol, call>>

\* HashToPrime::new: cache.lock() waits for the mutex; on a poisoned mutex it
\* answers Err, the guard inside the error is dropped at once and the
\* fallback computes the bound without the cache
HashNewLock(t) ==
    /\ pc[t] = "h_lock"
    /\ lock = NoThread
    /\ IF poisoned
       THEN /\ computed' = [computed EXCEPT ![t] = ComputePrecisionBound(lambda[t])]
            /\ pc' = [pc EXCEPT ![t] = "h_build"]
            /\ UNCHANGED lock
       ELSE /\ lock' = t
            /\ pc' = [pc EXCEPT ![t] = "h_read"]
            /\ UNCHANGED computed
    /\ UNCHANGED <<store, params, cache, poisoned, vdf, token, pre, loc, sol, call>>

\* a lookup that answers with any entry of the cache, whatever its key
HashNewReadAnyKey(t) ==
    /\ pc[t] = "h_read"
    /\ lock' = NoThread
    /\ IF \E l \in AllLambdas : cache[l] /= None
       THEN /\ \E l \in AllLambdas :
                  /\ cache[l] /= None
                  /\ computed' = [computed EXCEPT ![t] = cache[l]]
            /\ pc' = [pc EXCEPT ![t] = "h_build"]
       ELSE /\ pc' = [pc EXCEPT ![t] = "h_compute"]
            /\ UNCHANGED computed
    /\ UNCHANGED <<store, params, cache, poisoned, vdf, token, pre, loc, sol, call>>

\* HashToPrime::new: cache_guard.get(&lambda), then the guard is dropped
HashNewRead(t) ==
    /\ pc[t] = "h_read"
    /\ lock' = NoThread
    /\ IF cache[lambda[t]] /= None
       THEN /\ computed' = [computed EXCEPT ![t] = cache[lambda[t]]]
            /\ pc' = [pc EXCEPT ![t] = "h_build"]
       ELSE /\ pc' = [pc EXCEPT ![t] = "h_compute"]
            /\ UNCHANGED computed
    /\ UNCHANGED <<store, params, cache, poisoned, vdf, token, pre, loc, sol, call>>

\* HashToPrime::new: compute_precision_bound(lambda) outside the lock
HashNewCompute(t) ==
    /\ pc[t] = "h_compute"
    /\ computed' = [computed EXCEPT ![t] = ComputePrecisionBound(lambda[t])]
    /\ pc' = [pc EXCEPT ![t] = "h_try"]
    /\ UNCHANGED <<store, params, cache, mutex, vdf, token, pre, loc, sol, call>>

\* a write path that waits for the mutex instead of trying it
HashNewTryLockBlocking(t) ==
    /\ pc[t] = "h_try"
    /\ lock = NoThread
    /\ IF ~poisoned
       THEN /\ lock' = t
            /\ pc' = [pc EXCEPT ![t] = "h_insert"]
       ELSE /\ pc' = [pc EXCEPT ![t] = "h_build"]
            /\ UNCHANGED lock
    /\ UNCHANGED <<store, params, cache, poisoned, computed, vdf, token, pre, loc, sol, call>>

\* HashToPrime::new: cache.try_lock(); a busy or poisoned mutex skips the insert
HashNewTryLock(t) ==
    /\ pc[t] = "h_try"
    /\ IF lock = NoThread /\ ~poisoned
       THEN /\ lock' = t
            /\ pc' = [pc EXCEPT ![t] = "h_insert"]
       ELSE /\ pc' = [pc EXCEPT ![t] = "h_build"]
            /\ UNCHANGED lock
    /\ UNCHANGED <<store, params, cache, poisoned, computed, vdf, token, pre, loc, sol, call>>

\* an insert that replaces the map by the new entry alone
HashNewInsertEvict(t) ==
    /\ pc[t] = "h_insert"
    /\ cache' = [l \in AllLambdas |-> IF l = lambda[t] THEN computed[t] ELSE None]
    /\ lock' = NoThread
    /\ pc' = [pc EXCEPT ![t] = "h_build"]
    /\ UNCHANGED <<store, params, poisoned, computed, vdf, token, pre, loc, sol, call>>

\* HashToPrime::new: cache_guard.insert(lambda, computed), then the guard is dropped
HashNewInsert(t) ==
    /\ pc[t] = "h_insert"
    /\ cache' = [cache EXCEPT ![lambda[t]] = computed[t]]
    /\ lock' = NoThread
    /\ pc' = [pc EXCEPT ![t] = "h_build"]
    /\ UNCHANGED <<store, params, poisoned, computed, vdf, token, pre, loc, sol, call>>

\* a thread that unwinds while it holds the guard: the guard's drop releases
\* the mutex and marks it poisoned
Poison(t) ==
    /\ pc[t] \in {"h_read", "h_insert"}
    /\ lock = t
    /\ poisoned' = TRUE
    /\ lock' = NoThread
    /\ pc' = [pc EXCEPT ![t] = "panicked"]
    /\ UNCHANGED <<store, params, cache, computed, vdf, token, pre, loc, sol, call>>

\* HashToPrime::new: max_int /= 6, and WesolowskiVdf { puzzle, hash }
HashNewBuild(t) ==
    /\ pc[t] = "h_build"
    /\ vdf' = [vdf EXCEPT ![t] =
                 [panic |-> FALSE, time_bits |-> vdf[t].time_bits,
                  base |-> vdf[t].base, modulus |-> vdf[t].modulus,
                  iterations |-> vdf[t].iterations, max_int |-> computed[t]]]
    /\ pc' = [pc EXCEPT ![t] = "ready"]
    /\ UNCHANGED <<store, params, cache, mutex, computed, token, pre, loc, sol, call>>

\* ---------------------------------------------------- CancellationToken
\* the caller's token is live while the caller constructs and proves
TokenLive(t) ==
    pc[t] \in {"new", "h_lock", "h_read", "h_compute", "h_try", "h_insert",
              "h_build", "ready", "pass1", "pass2"}

\* CancellationToken::from_atomic_ptr: the caller makes its token from the
\* external location instead of CancellationToken::new()
FromAtomicPtr(t) ==
    /\ pc[t] = "new"
    /\ tok[t] = "own" /\ ~cancelled[t]
    /\ tok' = [tok EXCEPT ![t] = "ext"]
    /\ UNCHANGED <<store, params, cache, mutex, pc, computed, vdf, flag, ext, cancelled,
                   pre, loc, sol, call>>

\* the owner of the external location stores a value into it
ExternalStore(v) ==
    /\ \E t \in Threads : tok[t] = "ext" /\ TokenLive(t)
    /\ ext' = v
    /\ UNCHANGED <<store, params, cache, mutex, pc, computed, vdf, flag, tok, cancelled,
                   pre, loc, sol, call>>

\* a cancel() that flips the flag instead of setting it
CancelToggle(t) ==
    /\ TokenLive(t)
    /\ IF tok[t] = "ext"
       THEN ext' = ~ext /\ UNCHANGED flag
       ELSE flag' = [flag EXCEPT ![t] = ~flag[t]] /\ UNCHANGED ext
    /\ cancelled' = [cancelled EXCEPT ![t] = TRUE]
    /\ UNCHANGED <<store, params, cache, mutex, pc, computed, vdf, tok, pre, loc, sol, call>>

\* CancellationToken::cancel: a store of true to the external location when
\* the token is bound to one, to the token's own flag otherwise
Cancel(t) ==
    /\ TokenLive(t)
    /\ IF tok[t] = "ext"
       THEN ext' = TRUE /\ UNCHANGED flag
       ELSE flag' = [flag EXCEPT ![t] = TRUE] /\ UNCHANGED ext
    /\ cancelled' = [cancelled EXCEPT ![t] = TRUE]
    /\ UNCHANGED <<store, params, cache, mutex, pc, computed, vdf, tok, pre, loc, sol, call>>

\* ------------------------------------------------- WesolowskiProver::prove
\* the return of a Solution from prove()
Return(t, l, s) ==
    /\ loc' = [loc EXCEPT ![t] = l]
    /\ sol' = [sol EXCEPT ![t] = s]
    /\ pc' = [pc EXCEPT ![t] = "done"]

\* entry of prove(): iterations.to_u64() selects the native loop or
\* prove_large_iterations; y = base.clone()
ProveStart(t) ==
    /\ pc[t] = "ready"
    /\ pre' = [pre EXCEPT ![t] = IsCancelled(t)]
    /\ LET u == ToU64(vdf[t].iterations)
       IN loc' = [loc EXCEPT ![t] =
                    [InitLocals EXCEPT
                       !.path = IF u = None THEN "large" ELSE "native",
                       !.check_interval = IF u = None THEN 0 ELSE CheckInterval(u),
                       !.i = 1,
                       !.y = vdf[t].base]]
    /\ pc' = [pc EXCEPT ![t] = "pass1"]
    /\ UNCHANGED <<store, params, cache, mutex, computed, vdf, token, sol, call>>

\* a first loop that squares the puzzle's base in place instead of a clone
Pass1StepInPlace(t) ==
    /\ pc[t] = "pass1"
    /\ loc[t].i <= vdf[t].iterations
    /\ LET l == loc[t]
       IN IF PollDue(l) /\ IsCancelled(t)
          THEN /\ Return(t, [l EXCEPT !.abort = "cancel"], EmptySolution)
               /\ UNCHANGED vdf
          ELSE /\ loc' = [loc EXCEPT ![t] =
                            [l EXCEPT !.y = SquareMod(l.y, vdf[t].modulus),
                                      !.i = l.i + 1,
                                      !.check_counter = NextCounter(l),
                                      !.since_poll = SincePoll(l, PollDue(l)),
                                      !.nsq = l.nsq + 1]]
               /\ vdf' = [vdf EXCEPT ![t].base = SquareMod(l.y, vdf[t].modulus)]
               /\ UNCHANGED <<pc, sol>>
    /\ UNCHANGED <<store, params, cache, mutex, computed, token, pre, call>>

\* entry of prove_large_iterations on its own, whatever the size of T
ProveLargeStart(t) ==
    /\ pc[t] = "ready"
    /\ pre' = [pre EXCEPT ![t] = IsCancelled(t)]
    /\ loc' = [loc EXCEPT ![t] =
                 [InitLocals EXCEPT !.path = "large", !.i = 1, !.y = vdf[t].base]]
    /\ pc' = [pc EXCEPT ![t] = "pass1"]
    /\ UNCHANGED <<store, params, cache, mutex, computed, vdf, token, sol, call>>

\* one iteration of the first loop: the poll, then y = y^2 mod N
Pass1Step(t) ==
    /\ pc[t] = "pass1"
    /\ loc[t].i <= vdf[t].iterations
    /\ LET l == loc[t]
       IN IF PollDue(l) /\ IsCancelled(t)
          THEN Return(t, [l EXCEPT !.abort = "cancel"], EmptySolution)
          ELSE /\ loc' = [loc EXCEPT ![t] =
                            [l EXCEPT !.y = SquareMod(l.y, vdf[t].modulus),
                                      !.i = l.i + 1,
                                      !.check_counter = NextCounter(l),
                                      !.since_poll = SincePoll(l, PollDue(l)),
                                      !.nsq = l.nsq + 1]]
               /\ UNCHANGED <<pc, sol>>
    /\ UNCHANGED <<store, params, cache, mutex, computed, vdf, token, pre, call>>

\* xy = x || y and p = hash_to_prime(xy); a failed hash returns the empty Solution
HashStep(t) ==
    /\ pc[t] = "pass1"
    /\ loc[t].i > vdf[t].iterations
    /\ LET l == loc[t]
           xy == Concat(vdf[t].base, l.y, vdf[t].modulus)
           h == HashToPrime(vdf[t].max_int, xy)
       IN IF ~h.ok
          THEN Return(t, [l EXCEPT !.hashed = TRUE, !.nhash = l.nhash + 1,
                                   !.abort = "hash"], EmptySolution)
          ELSE /\ loc' = [loc EXCEPT ![t] =
                            [l EXCEPT !.p = h.prime, !.r = 1, !.pi = 1, !.i = 1,
                                      !.check_counter = 0, !.hashed = TRUE,
                                      !.nhash = l.nhash + 1]]
               /\ pc' = [pc EXCEPT ![t] = "pass2"]
               /\ UNCHANGED sol
    /\ UNCHANGED <<store, params, cache, mutex, computed, vdf, token, pre, call>>

\* a loop body that reduces r without multiplying pi by x
Pass2BodyNoMultiply(l, v) ==
    LET pi1 == SquareMod(l.pi, v.modulus)
        r1 == 2 * l.r
    IN IF r1 >= l.p
       THEN [l EXCEPT !.r = r1 - l.p, !.pi = pi1]
       ELSE [l EXCEPT !.r = r1, !.pi = pi1]

\* the body of the second loop after the poll: pi = pi^2 mod N, r = 2r,
\* and on r >= p: r -= p, pi = pi * x mod N
Pass2Body(l, v) ==
    LET pi1 == SquareMod(l.pi, v.modulus)
        r1 == 2 * l.r
    IN IF r1 >= l.p
       THEN [l EXCEPT !.r = r1 - l.p, !.pi = (pi1 * v.base) % v.modulus]
       ELSE [l EXCEPT !.r = r1, !.pi = pi1]

\* a big-integer loop body that tests r >= p before the shift
LargePass2BodyTestFirst(l, v) ==
    LET pi1 == SquareMod(l.pi, v.modulus)
        r1 == 2 * l.r
    IN IF l.r >= l.p
       THEN [l EXCEPT !.r = r1 - l.p, !.pi = (pi1 * v.base) % v.modulus]
       ELSE [l EXCEPT !.r = r1, !.pi = pi1]

\* the body of the second loop of prove_large_iterations after the poll
LargePass2Body(l, v) ==
    LET pi1 == SquareMod(l.pi, v.modulus)
        r1 == l.r * 2
    IN IF r1 >= l.p
       THEN [l EXCEPT !.r = r1 - l.p, !.pi = (pi1 * v.base) % v.modulus]
       ELSE [l EXCEPT !.r = r1, !.pi = pi1]

\* one iteration of the second loop
Pass2Step(t) ==
    /\ pc[t] = "pass2"
    /\ loc[t].i <= vdf[t].iterations
    /\ LET l == loc[t]
       IN IF PollDue(l) /\ IsCancelled(t)
          THEN Return(t, [l EXCEPT !.abort = "cancel"], EmptySolution)
          ELSE /\ loc' = [loc EXCEPT ![t] =
                            [(IF l.path = "native" THEN Pass2Body(l, vdf[t])
                              ELSE LargePass2Body(l, vdf[t])) EXCEPT
                                !.i = l.i + 1,
                                !.check_counter = NextCounter(l),
                                !.since_poll = SincePoll(l, PollDue(l)),
                                !.nit2 = l.nit2 + 1]]
               /\ UNCHANGED <<pc, sol>>
    /\ UNCHANGED <<store, params, cache, mutex, computed, vdf, token, pre, call>>

\* Solution { first: pi_bytes, second: y_bytes }
Serialize(l) == [first |-> ToDigits(l.pi), second |-> ToDigits(l.y)]

\* the end of prove(): serialise pi and y
ProveReturn(t) ==
    /\ pc[t] = "pass2"
    /\ loc[t].i > vdf[t].iterations
    /\ Return(t, loc[t], Serialize(loc[t]))
    /\ UNCHANGED <<store, params, cache, mutex, computed, vdf, token, pre, call>>

\* ------------------------------------------------- verify and hash calls
\* WesolowskiVerifier::verify on the Solution prove() returned
VerifyOwn(t) ==
    /\ pc[t] = "done"
    /\ call' = [call EXCEPT ![t] =
                  [op |-> "verify", sol |-> sol[t], res |-> WVerify(vdf[t], sol[t]),
                   repeat |-> FALSE]]
    /\ pc' = [pc EXCEPT ![t] = "verified"]
    /\ UNCHANGED <<store, params, cache, mutex, computed, vdf, token, pre, loc, sol>>

\* WesolowskiVerifier::verify on a Solution chosen by the caller
Verify(t) ==
    /\ pc[t] = "ready"
    /\ \E s \in ArbitrarySolutions :
          call' = [call EXCEPT ![t] =
                     [op |-> "verify", sol |-> s, res |-> WVerify(vdf[t], s),
                      repeat |-> FALSE]]
    /\ pc' = [pc EXCEPT ![t] = "called"]
    /\ UNCHANGED <<store, params, cache, mutex, computed, vdf, token, pre, loc, sol>>

\* a second WesolowskiVerifier::verify on the same Solution and vdf; the
\* answer of the first call is kept in prev
VerifyAgain(t) ==
    /\ pc[t] \in {"verified", "called"}
    /\ call[t].op = "verify" /\ ~call[t].repeat
    /\ call' = [call EXCEPT ![t] =
                  [op |-> "verify", sol |-> call[t].sol,
                   res |-> WVerify(vdf[t], call[t].sol),
                   repeat |-> TRUE, prev |-> call[t].res]]
    /\ UNCHANGED <<store, params, cache, mutex, pc, computed, vdf, token, pre, loc, sol>>

\* WesolowskiVdf::hash_to_prime on an input chosen by the caller
HashCall(t) ==
    /\ pc[t] = "ready"
    /\ \E x \in HashInputs :
          call' = [call EXCEPT ![t] =
                     [op |-> "hash", input |-> x, max_int |-> vdf[t].max_int,
                      lambda |-> lambda[t],
                      res |-> HashToPrime(vdf[t].max_int, x)]]
    /\ pc' = [pc EXCEPT ![t] = "called"]
    /\ UNCHANGED <<store, params, cache, mutex, computed, vdf, token, pre, loc, sol>>

\* ---------------------------------------------------------- specifications
\* WesolowskiVdf::new
Construct(t) ==
    \/ VdfNew(t)
    \/ HashNewLock(t)
    \/ HashNewRead(t)
    \/ HashNewCompute(t)
    \/ HashNewTryLock(t)
    \/ HashNewInsert(t)
    \/ HashNewBuild(t)

\* prove() under a token that may be cancelled at any moment, then verify()
Prove(t) ==
    \/ Cancel(t)
    \/ ProveStart(t)
    \/ Pass1Step(t)
    \/ HashStep(t)
    \/ Pass2Step(t)
    \/ ProveReturn(t)
    \/ VerifyOwn(t)
    \/ VerifyAgain(t)

\* one caller building a vdf, proving and verifying the proof
Next == \E t \in {1} : Construct(t) \/ Prove(t)
Spec == Init /\ [][Next]_vars

\* the same caller when the generator is one under which no search is exhausted
InitTotal == Init /\ genA = 5 /\ genC = 3
SpecTotal == InitTotal /\ [][Next]_vars

\* one caller building a vdf and calling verify() or hash_to_prime() on it
NextCalls == \E t \in {1} : Construct(t) \/ Verify(t) \/ VerifyAgain(t) \/ HashCall(t)
SpecCalls == Init /\ [][NextCalls]_vars

\* two callers on separate threads, each building its own vdf from the same
\* arguments, then proving (and verifying) or calling hash_to_prime
InitConc ==
    /\ Init
    /\ time_bits <= ConcMaxTimeBits
    /\ modulus \in {<<7>>, <<11>>}
    /\ input \in {<<2>>, <<3>>}
NextConc == \E t \in Threads : Construct(t) \/ Prove(t) \/ HashCall(t)
SpecConc == InitConc /\ [][NextConc]_vars

\* two callers whose tokens may be bound to one externally owned flag
InitExt ==
    /\ Init
    /\ time_bits \in {ExtTimeBits}
    /\ modulus = <<7>>
    /\ input = <<2>>
    /\ lambda[1] = 128
NextExt ==
    \/ \E t \in Threads : Construct(t) \/ FromAtomicPtr(t) \/ Prove(t)
    \/ \E v \in BOOLEAN : ExternalStore(v)
SpecExt == InitExt /\ [][NextExt]_vars

\* two callers constructing with equal or different lambdas, a guard holder
\* that may unwind, and hash_to_prime on the instances built
InitCache ==
    /\ InitFor(AllLambdas)
    /\ DagEmpty
    /\ time_bits = 0
    /\ modulus = <<7>>
    /\ input = <<2>>
NextCache == \E t \in Threads : Construct(t) \/ Poison(t) \/ HashCall(t)
SpecCache == InitCache /\ [][NextCache]_vars

\* prove_large_iterations under a token that may be cancelled at any moment
ProveLarge(t) ==
    \/ Cancel(t)
    \/ ProveLargeStart(t)
    \/ Pass1Step(t)
    \/ HashStep(t)
    \/ Pass2Step(t)
    \/ ProveReturn(t)

\* the same vdf handed to prove() by caller 1 and to prove_large_iterations
\* by caller 2
InitRefine ==
    /\ Init
    /\ time_bits <= RefineMaxTimeBits
    /\ modulus \in {<<7>>, <<11>>}
    /\ input \in {<<2>>, <<3>>}
NextRefine ==
    \/ \E t \in Threads : Construct(t)
    \/ Prove(1)
    \/ ProveLarge(2)
SpecRefine == InitRefine /\ [][NextRefine]_vars

\* a call of DagRepository::dag_blocks_at_level
CallDagBlocksAtLevel(level, n) ==
    /\ ~query["dag_blocks_at_level"].made
    /\ query' = [query EXCEPT !["dag_blocks_at_level"] =
                   [made |-> TRUE, level |-> level, number_of_levels |-> n,
                    res |-> dag_blocks_at_level(level, n)]]
    /\ UNCHANGED <<DagBlocksLevel, DagBlocks, params, cache, mutex, pc, computed,
                   vdf, token, pre, loc, sol, call>>

\* a call of DagRepository::dag_blocks_at_level_rlp, the one behind the
\* bridge's get_dag_blocks_at_level
CallDagBlocksAtLevelRlp(level, n) ==
    /\ ~query["dag_blocks_at_level_rlp"].made
    /\ query' = [query EXCEPT !["dag_blocks_at_level_rlp"] =
                   [made |-> TRUE, level |-> level, number_of_levels |-> n,
                    res |-> dag_blocks_at_level_rlp(level, n)]]
    /\ UNCHANGED <<DagBlocksLevel, DagBlocks, params, cache, mutex, pc, computed,
                   vdf, token, pre, loc, sol, call>>

\* a database written by the host: every level has an index entry or none,
\* a block has one level, and its bytes are in Column::DagBlocks, in the
\* period data it was finalized into, or gone
InitDag ==
    /\ InitFor({128})
    /\ time_bits = 0 /\ input = <<2>> /\ modulus = <<7>>
    /\ genA = 5 /\ genC = 3
    /\ DagBlocksLevel \in [Levels -> {NoEntry} \cup {Entry(l) : l \in HashLists}]
    /\ \A l1, l2 \in Levels :
           (l1 /= l2 /\ DagBlocksLevel[l1].some /\ DagBlocksLevel[l2].some) =>
               \A i \in DOMAIN DagBlocksLevel[l1].value,
                  j \in DOMAIN DagBlocksLevel[l2].value :
                   DagBlocksLevel[l1].value[i] /= DagBlocksLevel[l2].value[j]
    /\ DagBlocks \in [Hashes -> {"none", "DagBlocks", "PeriodData"}]
    /\ query = [q \in DagQueries |-> NoQuery]
NextDag ==
    \E level \in Levels, n \in 0..DagMaxDepth :
        \/ CallDagBlocksAtLevel(level, n)
        \/ CallDagBlocksAtLevelRlp(level, n)
SpecDag == InitDag /\ [][NextDag]_vars

\* ================================================================= claims
Finished(t) == pc[t] \in {"done", "verified"}
T(t) == vdf[t].iterations
\* the hash-to-prime result prove() and verify() obtain for output value y
Challenge(t, y) == HashToPrime(vdf[t].max_int, Concat(vdf[t].base, y, vdf[t].modulus))

\* C1: completeness -- with a token that is never cancelled, verify() accepts
\* the Solution prove() returned, for every modulus N > 0 and every base in [0, N).
C1_Completeness ==
    \A t \in Threads :
        (pc[t] = "verified" /\ ~flag[t]) => call[t].res = TRUE

\* C2: a token cancelled before prove() is invoked makes prove() return the
\* empty Solution, in the native loop and in the big-integer loop.
C2_CancelBeforeProve ==
    \A t \in Threads :
        (Finished(t) /\ pre[t]) => sol[t] = EmptySolution
C2_Witness ==
    \E t \in Threads :
        /\ pc[t] = "done" /\ pre[t]
        /\ loc[t].path = "large" /\ loc[t].nsq >= 1
        /\ sol[t] = EmptySolution

C4_EmptyIffCancelled ==
    \A t \in Threads :
        Finished(t) => ((sol[t] = EmptySolution) <=> (loc[t].abort = "cancel"))

IsPrimeNumber(n) == IsProbablyPrime(n, MAX_MILLER_RABIN) = "Yes"
C6_DegenerateRejected ==
    \A t \in Threads :
        call[t].op = "verify" =>
            LET pi == FromDigits(call[t].sol.first)
                y == FromDigits(call[t].sol.second)
            IN /\ call[t].res \in BOOLEAN
               /\ (pi = 0 \/ y = 0 \/ pi >= vdf[t].modulus \/ y >= vdf[t].modulus) =>
                     call[t].res = FALSE
C6_Witness ==
    \E t \in Threads :
        /\ call[t].op = "verify" /\ call[t].res = FALSE
        /\ FromDigits(call[t].sol.first) = 1
        /\ call[t].sol.second = <<0>>
        /\ vdf[t].base = 0 /\ vdf[t].modulus > 1
        /\ Challenge(t, 0).ok

\* b^e mod m by e successive multiplications
RECURSIVE ModExp(_, _, _)
ModExp(b, e, m) == IF e = 0 THEN 1 % m ELSE (ModExp(b, e - 1, m) * b) % m

\* C7: for pi and y in [1, N-1], verify() accepts exactly when hash_to_prime
\* succeeds with a prime p and ((x^(2^T mod p) mod N) * (pi^p mod N)) mod N = y.
C7_AcceptanceCriterion ==
    \A t \in Threads :
        call[t].op = "verify" =>
            LET pi == FromDigits(call[t].sol.first)
                y == FromDigits(call[t].sol.second)
                N == vdf[t].modulus
                h == Challenge(t, y)
            IN (pi \in 1..(N - 1) /\ y \in 1..(N - 1)) =>
                  (call[t].res <=>
                      /\ h.ok
                      /\ (ModExp(vdf[t].base, ModExp(2, T(t), h.prime), N)
                            * ModExp(pi, h.prime, N)) % N = y)
C7_Witness ==
    \E t \in Threads :
        /\ call[t].op = "verify" /\ call[t].res
        /\ vdf[t].base > 1
        /\ FromDigits(call[t].sol.first) > 1
        /\ ModExp(2, T(t), Challenge(t, FromDigits(call[t].sol.second)).prime) > 1

\* C10: every value hash_to_prime returns as Ok is >= 2, is 1 or 5 modulo 6,
\* and is the candidate the primality test accepted in the last iteration
\* executed; no earlier candidate was accepted.
C10_ReturnedPrime ==
    \A t \in Threads :
        (call[t].op = "hash" /\ call[t].res.ok) =>
            LET tr == call[t].res.trace
                n == Len(tr)
                r == call[t].res.prime
            IN /\ n >= 1 /\ n = call[t].res.count
               /\ tr[n].tested /\ tr[n].answer = "Yes" /\ tr[n].candidate = r
               /\ r >= 2 /\ r % 6 \in {1, 5}
               /\ IsPrimeNumber(r)
               /\ \A k \in 1..(n - 1) : tr[k].answer /= "Yes"
C10_Witness ==
    \E t \in Threads :
        /\ call[t].op = "hash" /\ call[t].res.ok
        /\ Len(call[t].res.trace) = 2
        /\ call[t].res.trace[1].tested
        /\ call[t].res.trace[1].answer = "No"

\* C8: two prove() calls on vdf instances built from identical arguments, each
\* with its own never-cancelled token, return byte-identical Solutions, however
\* the two threads interleave and whatever the cache held.
C8_ProveDeterministic ==
    \A t1 \in Threads : \A t2 \in Threads :
        (Finished(t1) /\ Finished(t2) /\ ~flag[t1] /\ ~flag[t2]) => sol[t1] = sol[t2]
C8_Witness ==
    /\ \A t \in Threads : Finished(t) /\ ~flag[t]
    /\ sol[1] = sol[2]
    /\ FromDigits(sol[1].first) > 1
    /\ FromDigits(sol[1].second) > 1

C11_CandidateRange ==
    \A t \in Threads :
        call[t].op = "hash" =>
            \A k \in 1..Len(call[t].res.trace) :
                LET e == call[t].res.trace[k]
                IN /\ e.pre \in 0..(e.below - 1)
                   /\ SignificantBits(e.below) = MaxIntBits(call[t].max_int)
                   /\ e.candidate \in {6 * e.pre - 1, 6 * e.pre + 1}

\* C12: hash_to_prime runs at most MAX_ITER iterations and returns the error
\* exactly when none of them accepted a candidate; a candidate accepted in any
\* iteration, the last one included, is returned as Ok.
C12_ErrIffNoneAccepted ==
    \A t \in Threads :
        call[t].op = "hash" =>
            LET tr == call[t].res.trace
                accepted == {k \in 1..Len(tr) : tr[k].answer = "Yes"}
            IN /\ Len(tr) <= MAX_ITER
               /\ (~call[t].res.ok) <=> (accepted = {})
               /\ \A k \in accepted :
                     call[t].res.ok /\ call[t].res.prime = tr[k].candidate

\* big-endian value of a byte string, most significant byte first
RECURSIVE DecodeBigEndian(_, _)
DecodeBigEndian(bytes, acc) ==
    IF bytes = << >> THEN acc
    ELSE DecodeBigEndian(Tail(bytes), acc * BYTE_BASE + Head(bytes))

\* C13: for a modulus decoding to N > 0 the puzzle has modulus() = N,
\* base() = decode(input) mod N in [0, N) (0 for an empty input and for an
\* input equal to the modulus), iterations() = 2^time_bits; the vdf's accessors
\* return the values of the puzzle built from the same arguments.
C13_PuzzleInvariants ==
    \A t \in Threads :
        LET N == DecodeBigEndian(modulus, 0)
            x == DecodeBigEndian(input, 0)
        IN /\ (N > 0 /\ pc[t] /= "new") => pc[t] /= "panicked"
           /\ (N > 0 /\ pc[t] \notin {"new", "panicked"}) =>
                 /\ vdf[t].modulus = N
                 /\ vdf[t].base = x % N
                 /\ vdf[t].base >= 0 /\ vdf[t].base < N
                 /\ (input = << >> \/ input = modulus) => vdf[t].base = 0
                 /\ vdf[t].iterations = 2 ^ time_bits
                 /\ SignificantBits(vdf[t].iterations) = time_bits + 1
                 /\ LET pz == RswPuzzleNew(time_bits, input, modulus)
                    IN /\ vdf[t].base = pz.base
                       /\ vdf[t].modulus = pz.modulus
                       /\ vdf[t].iterations = pz.iterations
C13_Witness ==
    \E t \in Threads :
        /\ pc[t] = "ready"
        /\ input = modulus /\ Len(input) = 2
        /\ vdf[t].base = 0 /\ vdf[t].modulus > BYTE_BASE
        /\ time_bits = MaxTimeBits

\* C14: no input makes a public operation terminate the process: construction,
\* hash_to_prime, prove and verify return to their caller for every lambda,
\* time_bits, input and modulus, an empty or zero modulus included.
C14_NoFatalPath ==
    \A t \in Threads : pc[t] /= "panicked"

\* C15: a token made by new() reports is_cancelled() = false until cancel() is
\* called on it; once it reports true it reports true in every later state:
\* a further cancel() changes nothing and no step of the token or of prove()
\* resets the flag.
C15_TokenMonotonic ==
    /\ [](\A t \in Threads : (tok[t] = "own" /\ ~cancelled[t]) => ~IsCancelled(t))
    /\ [][\A t \in Threads :
            (tok[t] = "own" /\ IsCancelled(t)) => (flag'[t] /\ ~Cancel(t))]_vars
C15_Witness ==
    \E t \in Threads :
        /\ tok[t] = "own" /\ cancelled[t] /\ IsCancelled(t)
        /\ pc[t] = "verified" /\ loc[t].abort = "cancel" /\ loc[t].nsq >= 1

\* C16: for a token bound to the external flag, a poll of prove() answers with
\* the value stored at the external location (also when cancel() was never
\* called on the token), cancel() stores true there, the token's own flag is
\* neither read nor written, and two tokens bound to the location agree.
C16_ExternalToken ==
    /\ [](\A t \in Threads : tok[t] = "ext" => ~flag[t])
    /\ [](\A t1 \in Threads : \A t2 \in Threads :
            (tok[t1] = "ext" /\ tok[t2] = "ext") => IsCancelled(t1) = IsCancelled(t2))
    /\ [][\A t \in Threads : tok[t] = "ext" =>
            /\ (cancelled'[t] /\ ~cancelled[t]) => ext'
            /\ (/\ pc[t] \in {"pass1", "pass2"}
                /\ loc[t].i <= vdf[t].iterations
                /\ PollDue(loc[t])
                /\ loc'[t] /= loc[t]) =>
                  ((pc'[t] = "done" /\ loc'[t].abort = "cancel") <=> ext)]_vars
C16_Witness ==
    /\ \A t \in Threads : tok[t] = "ext" /\ ~cancelled[t]
    /\ pc[1] = "done" /\ loc[1].abort = "cancel" /\ loc[1].nsq >= 1
    /\ pc[2] = "pass1" /\ loc[2].nsq >= 1
    /\ ext

\* C17: under every interleaving of HashToPrime::new calls for equal or
\* different lambdas (hit, miss, busy mutex on the write path, poisoned mutex)
\* each instance built has the bound compute_precision_bound gives for its own
\* lambda, hence max_int() = that bound div 6.
C17_CacheIndependent ==
    \A t \in Threads :
        /\ pc[t] \in {"h_try", "h_insert", "h_build"} =>
              computed[t] = ComputePrecisionBound(lambda[t])
        /\ pc[t] \in {"ready", "called"} =>
              vdf[t].max_int = ComputePrecisionBound(lambda[t])
C17_Witness ==
    /\ lambda[1] /= lambda[2]
    /\ poisoned /\ pc[1] = "panicked"
    /\ cache[lambda[2]] = None
    /\ pc[2] = "ready"
    /\ vdf[2].max_int = ComputePrecisionBound(lambda[2])
    /\ vdf[2].max_int /= ComputePrecisionBound(lambda[1])

\* C18: on a miss the write path never waits: try_lock answers at once, and
\* when another thread holds the mutex the caller goes on with its computed
\* bound, inserting nothing and leaving the cache as it was; the mutex is never
\* held by a thread that runs compute_precision_bound.
C18_WritePathNeverWaits ==
    /\ [](\A t \in Threads :
            /\ pc[t] = "h_compute" => lock /= t
            /\ lock = t => pc[t] \in {"h_read", "h_insert"}
            /\ pc[t] = "h_try" => ENABLED HashNewTryLock(t))
    /\ [][\A t \in Threads :
            (pc[t] = "h_try" /\ lock /= NoThread /\ pc'[t] /= pc[t]) =>
                /\ pc'[t] = "h_build"
                /\ cache' = cache
                /\ computed'[t] = ComputePrecisionBound(lambda[t])]_vars
C18_Witness ==
    /\ lambda[1] = lambda[2]
    /\ ~poisoned
    /\ pc[1] = "h_build" /\ computed[1] = ComputePrecisionBound(lambda[1])
    /\ cache[lambda[1]] = None
    /\ lock = 2 /\ pc[2] = "h_read"

\* C19: an entry lambda -> b of the cache stays in the cache with the same b in
\* every later state, and every stored b is the power of two
\* compute_precision_bound(lambda) (stored as its exponent, 64 .. 8192).
C19_CacheInvariant ==
    /\ [](\A l \in AllLambdas :
            cache[l] /= None =>
                /\ cache[l] = ComputePrecisionBound(l)
                /\ cache[l] \in MIN_PRECISION_BITS..MAX_PRECISION_BITS)
    /\ [][\A l \in AllLambdas : cache[l] /= None => cache'[l] = cache[l]]_vars
C19_Witness ==
    /\ lambda[1] /= lambda[2]
    /\ cache[lambda[1]] /= None /\ cache[lambda[2]] /= None
    /\ cache[lambda[1]] /= cache[lambda[2]]

\* C20: whenever the Lambert-W iteration leaves a finite non-zero w,
\* compute_precision_bound returns 2^k with k = clamp(ceil(1.1 * |w|), 64, 8192);
\* every bound returned is 2^k with 64 <= k <= 8192.
C20_BoundFormula ==
    \A t \in Threads :
        computed[t] /= None =>
            LET w == LambertW(lambda[t])
                ceil11 == (w.tenths * 11 + 99) \div 100
            IN /\ computed[t] \in MIN_PRECISION_BITS..MAX_PRECISION_BITS
               /\ (w.finite /\ ~w.zero) =>
                     computed[t] = Clamp(ceil11, MIN_PRECISION_BITS, MAX_PRECISION_BITS)

\* C21: on the native path check_interval = clamp(T div 100, 1, 10000), and at
\* most check_interval squaring steps are executed before the first poll of
\* the token and between any two consecutive polls, the last poll of the
\* first pass and the first poll of the second pass included; so a
\* cancellation issued before the final poll is answered after at most
\* check_interval further squaring steps.
C21_PollInterval ==
    \A t \in Threads :
        loc[t].path = "native" =>
            /\ loc[t].check_interval =
                   Clamp(T(t) \div CHECK_DIVISOR, 1, MAX_CHECK_INTERVAL)
            /\ loc[t].since_poll <= loc[t].check_interval

\* C22: a completed prove() returns output = the big-endian bytes of
\* y = x^(2^T) mod N, reached by exactly T squarings, and proof = the
\* big-endian bytes of pi = x^floor(2^T / p) mod N, where
\* p = hash_to_prime(x * 2^bitlen(N) + y) is computed once, after the first
\* pass and before the second; after k iterations of the second pass
\* 0 <= r < p, r = 2^k mod p and pi = x^floor(2^k / p) mod N.
C22_ProveComputes ==
    \A t \in Threads :
        LET l == loc[t]
            x == vdf[t].base
            N == vdf[t].modulus
        IN /\ pc[t] = "pass1" =>
                 /\ l.nsq = l.i - 1 /\ l.nhash = 0 /\ l.nit2 = 0
                 /\ l.nsq >= 1 => l.y = PowMod(x, Pow2(l.nsq), N)
           /\ (pc[t] = "pass2" \/ (Finished(t) /\ l.abort = "cancel" /\ l.hashed)) =>
                 /\ l.nsq = T(t) /\ l.nhash = 1
                 /\ l.y = PowMod(x, Pow2(T(t)), N)
                 /\ Challenge(t, l.y).ok /\ l.p = Challenge(t, l.y).prime
                 /\ l.nit2 <= T(t)
                 /\ 0 <= l.r /\ l.r < l.p
                 /\ l.r = Pow2(l.nit2) % l.p
                 /\ l.pi % N = PowMod(x, Pow2(l.nit2) \div l.p, N)
           /\ (Finished(t) /\ l.abort = "none") =>
                 /\ l.nsq = T(t) /\ l.nit2 = T(t) /\ l.nhash = 1
                 /\ DecodeBigEndian(sol[t].second, 0) = PowMod(x, Pow2(T(t)), N)
                 /\ DecodeBigEndian(sol[t].first, 0) =
                        PowMod(x, Pow2(T(t)) \div Challenge(t, l.y).prime, N)
                 /\ sol[t].second = ToDigits(l.y) /\ sol[t].first = ToDigits(l.pi)
C22_Witness ==
    /\ Finished(1) /\ loc[1].abort = "none"
    /\ T(1) >= 8 /\ loc[1].nit2 = T(1)
    /\ Pow2(T(1)) \div loc[1].p >= 2
    /\ loc[1].pi > 1 /\ loc[1].y > 1 /\ loc[1].r > 0

\* C23: whenever the float pipeline fails -- w is non-finite or zero after
\* the loop, or the iteration was left through the divergence guard
\* (|w| > 1000) -- compute_precision_bound returns exactly 2^64.
C23_FailureFallback ==
    \A t \in Threads :
        computed[t] /= None =>
            LET w == LambertW(lambda[t])
            IN (~w.finite \/ w.zero \/ w.diverged) =>
                   computed[t] = MIN_PRECISION_BITS

\* C24: prove(), verify() and hash_to_prime() leave the WesolowskiVdf they are
\* called on unchanged (base, modulus, iterations, search ceiling); prove()
\* never writes the cancellation flag; a repeated verify() on the same
\* Solution and vdf returns the same boolean.
C24_Frame ==
    /\ \A t \in Threads :
           (call[t].op = "verify" /\ call[t].repeat) => call[t].res = call[t].prev
    /\ [][\A t \in Threads :
            /\ pc[t] \in {"ready", "pass1", "pass2", "done", "verified", "called"} =>
                   vdf'[t] = vdf[t]
            /\ (pc[t] \in {"ready", "pass1", "pass2"} /\ <<pc[t], loc[t], sol[t]>>' /= <<pc[t], loc[t], sol[t]>>) =>
                   /\ flag' = flag /\ ext' = ext /\ tok' = tok]_vars
C24_Witness ==
    /\ pc[1] = "verified" /\ call[1].repeat /\ call[1].res
    /\ loc[1].abort = "none" /\ loc[1].nsq >= 4 /\ flag[1]
    /\ vdf[1].base > 1 /\ loc[1].y /= vdf[1].base
    /\ pc[2] = "called" /\ call[2].op = "hash" /\ call[2].res.ok

\* prove() on vdf v when nothing else runs and the token is never cancelled:
\* T squarings, the hash, T iterations of the second loop, the encoding
RECURSIVE Squarings(_, _, _)
Squarings(y, k, m) == IF k = 0 THEN y ELSE Squarings(SquareMod(y, m), k - 1, m)
RECURSIVE Pass2Alone(_, _, _)
Pass2Alone(l, k, v) == IF k = 0 THEN l ELSE Pass2Alone(Pass2Body(l, v), k - 1, v)
ProveAlone(v) ==
    LET y == Squarings(v.base, v.iterations, v.modulus)
        h == HashToPrime(v.max_int, Concat(v.base, y, v.modulus))
    IN IF ~h.ok THEN EmptySolution
       ELSE Serialize(Pass2Alone([InitLocals EXCEPT !.y = y, !.p = h.prime,
                                                    !.r = 1, !.pi = 1],
                                 v.iterations, v))

\* C25: with proofs on separate threads under distinct self-owned tokens,
\* cancelling one token never makes another proof return the empty
\* Solution, and every proof whose token is not cancelled returns exactly
\* the Solution it returns when it runs alone.
C25_Isolation ==
    \A t \in Threads :
        (Finished(t) /\ tok[t] = "own" /\ ~cancelled[t]) =>
            /\ loc[t].abort /= "cancel"
            /\ sol[t] = ProveAlone(vdf[t])
C25_Witness ==
    /\ Finished(2) /\ cancelled[2] /\ loc[2].abort = "cancel" /\ sol[2] = EmptySolution
    /\ Finished(1) /\ ~cancelled[1] /\ loc[1].abort = "none"
    /\ loc[1].nsq >= 4 /\ sol[1] /= EmptySolution
    /\ vdf[1] = vdf[2]

C27_SeedOnly ==
    \A t1, t2 \in Threads :
        (call[t1].op = "hash" /\ call[t2].op = "hash") =>
            LET a == call[t1].input
                b == call[t2].input
                sa == IF a = 0 THEN 1 ELSE a % HASH_MODULUS
                sb == IF b = 0 THEN 1 ELSE b % HASH_MODULUS
            IN sa = sb => call[t1].res = call[t2].res
C27_Witness ==
    /\ call[1].op = "hash" /\ call[2].op = "hash"
    /\ call[1].input = 0 /\ call[2].input = HASH_MODULUS + 1
    /\ call[1].res.ok /\ call[1].res.count >= 2
    /\ call[1].res.prime = call[2].res.prime

\* C28: prove_large_iterations and the native loop refine the same
\* computation: for the same x, N, T and prime source and a token that is
\* never cancelled they return the identical (proof, output); both return
\* the empty Solution on a cancelled poll or a hash failure; they differ only
\* in the schedule of their polls.
C28_LargeRefinesNative ==
    (loc[1].path = "native" /\ loc[2].path = "large" /\ vdf[1] = vdf[2]) =>
        /\ loc[1].nsq = loc[2].nsq => loc[1].y = loc[2].y
        /\ (loc[1].hashed /\ loc[2].hashed) =>
               /\ loc[1].p = loc[2].p
               /\ (loc[1].abort = "hash") = (loc[2].abort = "hash")
               /\ loc[1].nit2 = loc[2].nit2 =>
                      loc[1].r = loc[2].r /\ loc[1].pi = loc[2].pi
        /\ \A t \in Threads :
               /\ (Finished(t) /\ loc[t].abort /= "none") => sol[t] = EmptySolution
               /\ loc[t].abort = "cancel" => cancelled[t]
               /\ (Finished(t) /\ ~cancelled[t]) => loc[t].abort /= "cancel"
        /\ (Finished(1) /\ Finished(2) /\ ~cancelled[1] /\ ~cancelled[2]) =>
               sol[1] = sol[2]
C28_Witness ==
    /\ loc[1].path = "native" /\ loc[2].path = "large" /\ vdf[1] = vdf[2]
    /\ Finished(1) /\ Finished(2) /\ ~cancelled[1] /\ ~cancelled[2]
    /\ T(1) >= 8 /\ loc[1].abort = "none" /\ loc[2].abort = "none"
    /\ sol[2] /= EmptySolution /\ loc[2].pi > 1 /\ loc[2].nit2 = T(2)

\* n bytes 0x00
Zeros(n) == [k \in 1..n |-> 0]
\* Solution s with a and b zero bytes prepended to its proof and its output
Padded(s, a, b) == [first |-> Zeros(a) \o s.first, second |-> Zeros(b) \o s.second]

\* C29: verify() decodes both fields by numeric value only: prepending any
\* number of 0x00 bytes to the proof or the output of an accepted Solution
\* gives a byte-different Solution that is accepted too; prove() never emits
\* a field with a leading zero byte, and encodes the value 0 as the empty
\* string.
C29_NumericDecoding ==
    \A t \in Threads :
        /\ (call[t].op = "verify" /\ call[t].res) =>
               \A a, b \in 0..MaxPad :
                   /\ WVerify(vdf[t], Padded(call[t].sol, a, b))
                   /\ a + b > 0 => Padded(call[t].sol, a, b) /= call[t].sol
        /\ Finished(t) =>
               /\ sol[t].first /= << >> => Head(sol[t].first) /= 0
               /\ sol[t].second /= << >> => Head(sol[t].second) /= 0
               /\ loc[t].abort = "none" =>
                      /\ (loc[t].pi = 0) = (sol[t].first = << >>)
                      /\ (loc[t].y = 0) = (sol[t].second = << >>)
C29_Witness ==
    /\ pc[1] = "verified" /\ call[1].res /\ loc[1].abort = "none"
    /\ T(1) >= 4 /\ loc[1].pi > 1
    /\ sol[1].first /= << >> /\ sol[1].second /= << >>
    /\ ~WVerify(vdf[1], [first |-> sol[1].first, second |-> sol[1].second \o <<0>>])

\* C30: dag_blocks_at_level(level, n) and dag_blocks_at_level_rlp(level, n)
\* enumerate the same blocks in the same order: the levels level ..
\* level + n - 1 ascending, both skipping level 0 and contributing nothing for
\* a level without an entry, so that the RLP variant returns exactly the
\* encodings of the blocks whose hashes the hash variant returns.
C30_SameEnumeration ==
    LET qh == query["dag_blocks_at_level"]
        qr == query["dag_blocks_at_level_rlp"]
    IN (qh.made /\ qr.made /\ qh.level = qr.level
            /\ qh.number_of_levels = qr.number_of_levels) =>
           qr.res = [k \in 1..Len(qh.res) |-> BlockRlp(qh.res[k])]

====
